---- MODULE Spec2Model ----
(***************************************************************************)
(* Model of the two PAC date predicates of pac-resolver:                   *)
(*   src/src/timeRange.ts     timeRange(...)                               *)
(*   src/src/weekdayRange.ts  weekdayRange(wd1, wd2?, gmt?)                *)
(* The wall clock is a UTC second-of-week (0 = Sunday 00:00:00 UTC) that   *)
(* advances by one second per Tick; the process timezone is an offset in   *)
(* minutes.  A call is two steps, the part up to and including the read of *)
(* the clock and the part after it, so that the clock may advance while a  *)
(* call is running.                                                        *)
(***************************************************************************)
EXTENDS Integers, Sequences, FiniteSets

VARIABLES clock, tz, ticks, pc, args, useGMTzone, numericArgs, currentDate,
          wd1Index, wd2Index, todaysDay, result, callInstants

vars == <<clock, tz, ticks, pc, args, useGMTzone, numericArgs, currentDate,
          wd1Index, wd2Index, todaysDay, result, callInstants>>

(***************************************************************************)
(* Bounds of the model.                                                    *)
(***************************************************************************)
MaxTicks == 2
MaxArity == 7

(***************************************************************************)
(* JavaScript values.  An argument is a number, a string (a sequence of    *)
(* characters) or undefined; a computed number is an integer or NaN.       *)
(***************************************************************************)
NumTok(k) == [t |-> "num", n |-> k, s |-> <<>>]
StrTok(chars) == [t |-> "str", n |-> 0, s |-> chars]
Undefined == [t |-> "undef", n |-> 0, s |-> <<>>]

NaN == [nan |-> TRUE, v |-> 0]
Num(k) == [nan |-> FALSE, v |-> k]

\* variant: NaN compared as if it were 0
LteNaNAsZero(a, b) == a.v <= b.v
\* variant: < taken as <=
LtAsLte(a, b) == ~a.nan /\ ~b.nan /\ a.v <= b.v

\* a === b on numbers: false as soon as one side is NaN
StrictEq(a, b) == ~a.nan /\ ~b.nan /\ a.v = b.v
\* a <= b and a < b on numbers: false as soon as one side is NaN
Lte(a, b) == ~a.nan /\ ~b.nan /\ a.v <= b.v
Lt(a, b) == ~a.nan /\ ~b.nan /\ a.v < b.v
JsAdd(a, b) == IF a.nan \/ b.nan THEN NaN ELSE Num(a.v + b.v)
JsMul(a, b) == IF a.nan \/ b.nan THEN NaN ELSE Num(a.v * b.v)

GMTchars == <<"G", "M", "T">>
\* v === 'GMT'
IsGMTLiteral(tok) == tok.t = "str" /\ tok.s = GMTchars

(***************************************************************************)
(* parseInt(n, 10): the argument is converted to a string, leading white   *)
(* space is skipped, an optional sign is read, then the longest prefix of  *)
(* decimal digits; no digit at all gives NaN.                              *)
(***************************************************************************)
Digits == <<"0", "1", "2", "3", "4", "5", "6", "7", "8", "9">>
IsDigit(c) == \E i \in 1..10 : Digits[i] = c
DigitOf(c) == (CHOOSE i \in 1..10 : Digits[i] = c) - 1

RECURSIVE NatToChars(_)
NatToChars(k) ==
    IF k < 10 THEN <<Digits[k + 1]>>
    ELSE NatToChars(k \div 10) \o <<Digits[(k % 10) + 1]>>

JsToString(tok) ==
    CASE tok.t = "num" ->
            IF tok.n < 0 THEN <<"-">> \o NatToChars(0 - tok.n)
            ELSE NatToChars(tok.n)
      [] tok.t = "str" -> tok.s
      [] OTHER -> <<"u", "n", "d", "e", "f", "i", "n", "e", "d">>

RECURSIVE TrimStart(_)
TrimStart(cs) ==
    IF cs # <<>> /\ Head(cs) = " " THEN TrimStart(Tail(cs)) ELSE cs

RECURSIVE DigitPrefix(_)
DigitPrefix(cs) ==
    IF cs # <<>> /\ IsDigit(Head(cs))
    THEN <<Head(cs)>> \o DigitPrefix(Tail(cs))
    ELSE <<>>

RECURSIVE DigitsToNat(_, _)
DigitsToNat(cs, acc) ==
    IF cs = <<>> THEN acc
    ELSE DigitsToNat(Tail(cs), acc * 10 + DigitOf(Head(cs)))

parseInt(tok) ==
    LET S == TrimStart(JsToString(tok))
        signed == S # <<>> /\ Head(S) \in {"+", "-"}
        sign == IF S # <<>> /\ Head(S) = "-" THEN 0 - 1 ELSE 1
        Z == DigitPrefix(IF signed THEN Tail(S) ELSE S)
    IN  IF Z = <<>> THEN NaN ELSE Num(sign * DigitsToNat(Z, 0))

(***************************************************************************)
(* Date.  A Date is the UTC second-of-week it was made at, with the        *)
(* timezone offset of the process; the local fields are those of the UTC   *)
(* instant shifted by the offset.                                          *)
(***************************************************************************)
DaySecs == 24 * 3600
WeekSecs == 7 * DaySecs

NewDate == [utc |-> clock, off |-> tz]
LocalSecs(d) == (d.utc + d.off * 60) % WeekSecs

getUTCHours(d) == (d.utc % DaySecs) \div 3600
getUTCMinutes(d) == (d.utc % 3600) \div 60
getUTCSeconds(d) == d.utc % 60
getUTCDay(d) == d.utc \div DaySecs
getHours(d) == (LocalSecs(d) % DaySecs) \div 3600
getMinutes(d) == (LocalSecs(d) % 3600) \div 60
getSeconds(d) == LocalSecs(d) % 60
getDay(d) == LocalSecs(d) \div DaySecs

(***************************************************************************)
(* timeRange.ts                                                            *)
(***************************************************************************)
secondsElapsedToday(hh, mm, ss) ==
    JsAdd(JsAdd(JsMul(hh, Num(3600)), JsMul(mm, Num(60))), ss)

getCurrentHour(gmt, d) == Num(IF gmt THEN getUTCHours(d) ELSE getHours(d))
\* variant: the minute always read in local time
getCurrentMinuteLocal(gmt, d) == Num(getMinutes(d))
getCurrentMinute(gmt, d) == Num(IF gmt THEN getUTCMinutes(d) ELSE getMinutes(d))
getCurrentSecond(gmt, d) == Num(IF gmt THEN getUTCSeconds(d) ELSE getSeconds(d))

\* start <= value <= finish
valueInRange(start, value, finish) == Lte(start, value) /\ Lte(value, finish)

\* args.pop(): the last element, undefined for an empty list
PopValue(a) == IF a = <<>> THEN Undefined ELSE a[Len(a)]
PopRest(a) == IF a = <<>> THEN <<>> ELSE SubSeq(a, 1, Len(a) - 1)

\* lines 45-52: the argument list with a trailing 'GMT' removed
timeRangeGMT(raw) == IsGMTLiteral(PopValue(raw))
\* variant: the last argument is never put back
timeRangeArgsDropLast(raw) == PopRest(raw)
timeRangeArgs(raw) ==
    IF timeRangeGMT(raw) THEN PopRest(raw)
    ELSE Append(PopRest(raw), PopValue(raw))

\* line 56
MapParseInt(a) == [i \in 1..Len(a) |-> parseInt(a[i])]

\* variant: the 4-argument form compares the current second as well, against
\* a window that ends at second 0 of its last minute
timeRangeDispatchEndAtZero(gmt, nums, d) ==
    LET noOfArgs == Len(nums)
    IN  IF noOfArgs = 1 THEN
            StrictEq(getCurrentHour(gmt, d), nums[1])
        ELSE IF noOfArgs = 2 THEN
            LET currentHour == getCurrentHour(gmt, d)
            IN  Lte(nums[1], currentHour) /\ Lt(currentHour, nums[2])
        ELSE IF noOfArgs = 4 THEN
            valueInRange(
                secondsElapsedToday(nums[1], nums[2], Num(0)),
                secondsElapsedToday(getCurrentHour(gmt, d),
                                    getCurrentMinute(gmt, d),
                                    getCurrentSecond(gmt, d)),
                secondsElapsedToday(nums[3], nums[4], Num(0)))
        ELSE IF noOfArgs = 6 THEN
            valueInRange(
                secondsElapsedToday(nums[1], nums[2], nums[3]),
                secondsElapsedToday(getCurrentHour(gmt, d),
                                    getCurrentMinute(gmt, d),
                                    getCurrentSecond(gmt, d)),
                secondsElapsedToday(nums[4], nums[5], nums[6]))
        ELSE FALSE

\* lines 54-92: the dispatch on the number of arguments
timeRangeDispatch(gmt, nums, d) ==
    LET noOfArgs == Len(nums)
    IN  IF noOfArgs = 1 THEN
            StrictEq(getCurrentHour(gmt, d), nums[1])
        ELSE IF noOfArgs = 2 THEN
            LET currentHour == getCurrentHour(gmt, d)
            IN  Lte(nums[1], currentHour) /\ Lt(currentHour, nums[2])
        ELSE IF noOfArgs = 4 THEN
            valueInRange(
                secondsElapsedToday(nums[1], nums[2], Num(0)),
                secondsElapsedToday(getCurrentHour(gmt, d),
                                    getCurrentMinute(gmt, d), Num(0)),
                secondsElapsedToday(nums[3], nums[4], Num(59)))
        ELSE IF noOfArgs = 6 THEN
            valueInRange(
                secondsElapsedToday(nums[1], nums[2], nums[3]),
                secondsElapsedToday(getCurrentHour(gmt, d),
                                    getCurrentMinute(gmt, d),
                                    getCurrentSecond(gmt, d)),
                secondsElapsedToday(nums[4], nums[5], nums[6]))
        ELSE FALSE

\* the whole function on one Date
timeRange(raw, d) ==
    timeRangeDispatch(timeRangeGMT(raw), MapParseInt(timeRangeArgs(raw)), d)

(***************************************************************************)
(* weekdayRange.ts                                                         *)
(***************************************************************************)
weekdays == << <<"S", "U", "N">>, <<"M", "O", "N">>, <<"T", "U", "E">>,
               <<"W", "E", "D">>, <<"T", "H", "U">>, <<"F", "R", "I">>,
               <<"S", "A", "T">> >>

\* weekdays.indexOf(v): the 0-based position of the first element === v, or -1
indexOf(tok) ==
    IF tok.t = "str" /\ \E i \in 1..Len(weekdays) : weekdays[i] = tok.s
    THEN (CHOOSE i \in 1..Len(weekdays) :
             /\ weekdays[i] = tok.s
             /\ \A j \in 1..(i - 1) : weekdays[j] # tok.s) - 1
    ELSE 0 - 1

isWeekday(tok) == indexOf(tok) # 0 - 1

\* util.isGMT: true of the marker string only
isGMT(tok) == tok.t = "str" /\ tok.s = GMTchars

getTodaysDay(gmt, d) == IF gmt THEN getUTCDay(d) ELSE getDay(d)

\* start <= value <= finish, on day indices
dayInRange(start, value, finish) == start <= value /\ value <= finish

\* lines 54-64
\* variant: the marker is looked for in third position only
weekdayUseGMTThirdOnly(wd2, gmt) == isGMT(gmt)
weekdayUseGMT(wd2, gmt) == isGMT(gmt) \/ isGMT(wd2)
wd2IsGmt(wd2, gmt) == ~isGMT(gmt) /\ isGMT(wd2)

\* lines 66-70
weekdayIndex1(wd1) == indexOf(wd1)
weekdayIndex2(wd2, gmt) ==
    IF ~wd2IsGmt(wd2, gmt) /\ isWeekday(wd2) THEN indexOf(wd2) ELSE 0 - 1

\* variant: the two indices are put in increasing order first
weekdayDispatchNormalized(i1, i2, today) ==
    IF i2 < 0 THEN today = i1
    ELSE IF i1 <= i2 THEN dayInRange(i1, today, i2)
    ELSE dayInRange(i2, today, i1)

\* lines 75-85
weekdayDispatch(i1, i2, today) ==
    IF i2 < 0 THEN today = i1
    ELSE IF i1 <= i2 THEN dayInRange(i1, today, i2)
    ELSE dayInRange(i1, today, 6) \/ dayInRange(0, today, i2)

\* the whole function on one Date
weekdayRange(wd1, wd2, gmt, d) ==
    weekdayDispatch(weekdayIndex1(wd1), weekdayIndex2(wd2, gmt),
                    getTodaysDay(weekdayUseGMT(wd2, gmt), d))

(***************************************************************************)
(* Inputs.  The clock starts on any day of the week at one of a few times  *)
(* of day next to the boundaries the documented examples name; the         *)
(* timezone is west of, at, or east of Greenwich by a part of an hour.     *)
(***************************************************************************)
StartTimes == {30, 8 * 3600 + 29 * 60 + 59, 17 * 3600 + 59,
               23 * 3600 + 59 * 60 + 59}
StartClocks == {day * DaySecs + tod : day \in 0..6, tod \in StartTimes}
TZOffsets == {0 - 300, 0, 330}

gmtLower == StrTok(<<"g", "m", "t">>)
GMT == StrTok(GMTchars)
BadTokens == {gmtLower, StrTok(<<"x">>), Undefined}

HourNums == {6, 8, 9, 17, 22}
Arity1 == {<<h>> : h \in {NumTok(k) : k \in HourNums}
                          \cup {StrTok(<<"1", "7">>), StrTok(<<" ", "8", "h">>)}
                          \cup BadTokens}
Arity2 == {<<h1, h2>> : h1, h2 \in {NumTok(k) : k \in HourNums} \cup {gmtLower}}

Replace(a, i, tok) == [a EXCEPT ![i] = tok]
Arity4 == {<<NumTok(h1), NumTok(m1), NumTok(h2), NumTok(m2)>> :
              h1 \in {8, 17}, h2 \in {8, 17, 23}, m1, m2 \in {0, 30}}
          \cup {Replace(<<NumTok(8), NumTok(30), NumTok(17), NumTok(0)>>, i, b) :
                   i \in 1..4, b \in {gmtLower}}
Arity6 == {<<NumTok(h1), NumTok(m1), NumTok(s1),
             NumTok(h2), NumTok(m2), NumTok(s2)>> :
              h1 \in {0}, m1 \in {0, 30}, s1 \in {0, 31},
              h2 \in {0, 17}, m2 \in {0, 1}, s2 \in {30, 59}}
          \cup {Replace(<<NumTok(0), NumTok(0), NumTok(0),
                          NumTok(17), NumTok(0), NumTok(30)>>, i, b) :
                   i \in 1..6, b \in {gmtLower}}
OtherArity == {[i \in 1..k |-> NumTok(7 + i)] : k \in (0..MaxArity) \ {1, 2, 4, 6}}

BaseArgs == Arity1 \cup Arity2 \cup Arity4 \cup Arity6 \cup OtherArity
TimeArgs == BaseArgs \cup {Append(a, GMT) : a \in BaseArgs}
                     \cup {Append(a, gmtLower) : a \in OtherArity}

WeekdayToks == {StrTok(weekdays[i]) : i \in 1..Len(weekdays)}
Wd1Toks == WeekdayToks \cup {StrTok(<<"m", "o", "n">>), Undefined}
Wd2Toks == WeekdayToks \cup {StrTok(<<"X", "X", "X">>), GMT, Undefined}
GmtToks == {GMT, gmtLower, Undefined}

(***************************************************************************)
(* The state machine.                                                      *)
(***************************************************************************)
\* Both functions keep nothing between calls, so a behaviour is one call.
Idle == pc = "idle"
InCall == pc \in {"timeRange", "weekdayRange"}

Init ==
    /\ clock \in StartClocks
    /\ tz \in TZOffsets
    /\ ticks = 0
    /\ pc = "idle"
    /\ args = <<>>
    /\ useGMTzone = FALSE
    /\ numericArgs = <<>>
    /\ currentDate = [utc |-> clock, off |-> tz]
    /\ wd1Index = 0 - 1
    /\ wd2Index = 0 - 1
    /\ todaysDay = 0
    /\ result = FALSE
    /\ callInstants = {}

\* the wall clock advances by one second
Tick ==
    /\ ticks < MaxTicks
    /\ ticks' = ticks + 1
    /\ clock' = (clock + 1) % WeekSecs
    /\ callInstants' = IF InCall THEN callInstants \cup {clock'}
                       ELSE callInstants
    /\ UNCHANGED <<tz, pc, args, useGMTzone, numericArgs, currentDate,
                   wd1Index, wd2Index, todaysDay, result>>

\* timeRange.ts lines 45-56: the arguments, the marker and the clock
TimeRangeCall(raw) ==
    /\ Idle
    /\ pc' = "timeRange"
    /\ args' = raw
    /\ useGMTzone' = timeRangeGMT(raw)
    /\ currentDate' = NewDate
    /\ result' = FALSE
    /\ numericArgs' = MapParseInt(timeRangeArgs(raw))
    /\ callInstants' = {clock}
    /\ UNCHANGED <<clock, tz, ticks, wd1Index, wd2Index, todaysDay>>

\* variant: the minute of the 4-argument form is read from a second Date
TimeRangeReturnRereads ==
    /\ pc = "timeRange"
    /\ pc' = "timeRangeDone"
    /\ result' =
          IF Len(numericArgs) = 4 THEN
              valueInRange(
                  secondsElapsedToday(numericArgs[1], numericArgs[2], Num(0)),
                  secondsElapsedToday(getCurrentHour(useGMTzone, currentDate),
                                      getCurrentMinute(useGMTzone, NewDate),
                                      Num(0)),
                  secondsElapsedToday(numericArgs[3], numericArgs[4], Num(59)))
          ELSE timeRangeDispatch(useGMTzone, numericArgs, currentDate)
    /\ UNCHANGED <<clock, tz, ticks, args, useGMTzone, numericArgs,
                   currentDate, wd1Index, wd2Index, todaysDay, callInstants>>

\* timeRange.ts lines 58-92
TimeRangeReturn ==
    /\ pc = "timeRange"
    /\ pc' = "timeRangeDone"
    /\ result' = timeRangeDispatch(useGMTzone, numericArgs, currentDate)
    /\ UNCHANGED <<clock, tz, ticks, args, useGMTzone, numericArgs,
                   currentDate, wd1Index, wd2Index, todaysDay, callInstants>>

\* weekdayRange.ts lines 54-72: the marker, the indices and the clock
WeekdayRangeCall(wd1, wd2, gmt) ==
    /\ Idle
    /\ pc' = "weekdayRange"
    /\ args' = <<wd1, wd2, gmt>>
    /\ useGMTzone' = weekdayUseGMT(wd2, gmt)
    /\ wd1Index' = weekdayIndex1(wd1)
    /\ wd2Index' = weekdayIndex2(wd2, gmt)
    /\ currentDate' = NewDate
    /\ todaysDay' = getTodaysDay(weekdayUseGMT(wd2, gmt), NewDate)
    /\ callInstants' = {clock}
    /\ UNCHANGED <<clock, tz, ticks, numericArgs, result>>

\* weekdayRange.ts lines 75-85
WeekdayRangeReturn ==
    /\ pc = "weekdayRange"
    /\ pc' = "weekdayRangeDone"
    /\ result' = weekdayDispatch(wd1Index, wd2Index, todaysDay)
    /\ UNCHANGED <<clock, tz, ticks, args, useGMTzone, numericArgs,
                   currentDate, wd1Index, wd2Index, todaysDay, callInstants>>

Next ==
    \/ Tick
    \/ \E raw \in TimeArgs : TimeRangeCall(raw)
    \/ TimeRangeReturn
    \/ \E wd1 \in Wd1Toks, wd2 \in Wd2Toks, gmt \in GmtToks :
          WeekdayRangeCall(wd1, wd2, gmt)
    \/ WeekdayRangeReturn

Spec == Init /\ [][Next]_vars

TypeOK ==
    /\ clock \in 0..(WeekSecs - 1)
    /\ tz \in TZOffsets
    /\ ticks \in 0..MaxTicks
    /\ result \in BOOLEAN
    /\ useGMTzone \in BOOLEAN
    /\ wd1Index \in (0 - 1)..6
    /\ wd2Index \in (0 - 1)..6
    /\ todaysDay \in 0..6

(***************************************************************************)
(* Properties.  In each, the clock reading of a finished call is the Date  *)
(* the call made, currentDate.                                             *)
(***************************************************************************)

\* C1: weekdayRange(wd1, wd2) with two valid weekday tokens and no timezone
\* marker is i1 <= today <= i2 when i1 <= i2 and (i1 <= today <= 6) or
\* (0 <= today <= i2) when i1 > i2, today being the local weekday;
\* (FRI, MON) is true exactly on {5, 6, 0, 1} and (MON, FRI) on 1..5.
C1_TwoWeekdayForm ==
    (pc = "weekdayRangeDone" /\ args[1] \in WeekdayToks
        /\ args[2] \in WeekdayToks /\ args[3] # GMT) =>
    LET i1 == CHOOSE i \in 0..6 : weekdays[i + 1] = args[1].s
        i2 == CHOOSE i \in 0..6 : weekdays[i + 1] = args[2].s
        today == getDay(currentDate)
    IN  /\ i1 <= i2 => (result <=> (i1 <= today /\ today <= i2))
        /\ i1 > i2 => (result <=> ((i1 <= today /\ today <= 6)
                                    \/ (0 <= today /\ today <= i2)))
        /\ (i1 = 5 /\ i2 = 1) => (result <=> today \in {5, 6, 0, 1})
        /\ (i1 = 1 /\ i2 = 5) => (result <=> today \in 1..5)

\* (FRI, MON) on a Sunday: the wrapped window holds
C1_Witness ==
    /\ pc = "weekdayRangeDone"
    /\ args = <<StrTok(weekdays[6]), StrTok(weekdays[2]), Undefined>>
    /\ getDay(currentDate) = 0
    /\ result = TRUE

\* C2: with an unrecognized wd1 the result is false, whatever the second
\* and third arguments and the current weekday are.
C2_UnknownWd1IsFalse ==
    (pc = "weekdayRangeDone" /\ args[1] \notin WeekdayToks) => result = FALSE

\* C3: timeRange(hour1, min1, hour2, min2) with integer arguments is true
\* iff H*3600 + M*60 + S, with the current seconds S, lies between
\* hour1*3600 + min1*60 and hour2*3600 + min2*60 + 59 inclusively.
C3_FourArgForm ==
    LET marked == Len(args) = 5 /\ args[5] = GMT
    IN  (pc = "timeRangeDone" /\ (Len(args) = 4 \/ marked)
            /\ \A i \in 1..4 : args[i].t = "num") =>
        LET H == IF marked THEN getUTCHours(currentDate)
                 ELSE getHours(currentDate)
            M == IF marked THEN getUTCMinutes(currentDate)
                 ELSE getMinutes(currentDate)
            S == IF marked THEN getUTCSeconds(currentDate)
                 ELSE getSeconds(currentDate)
            now == H * 3600 + M * 60 + S
            start == args[1].n * 3600 + args[2].n * 60 + 0
            end == args[3].n * 3600 + args[4].n * 60 + 59
        IN  result <=> (start <= now /\ now <= end)

\* (8, 30, 17, 0) at 17:00:59 local time: still inside the window
C3_Witness ==
    /\ pc = "timeRangeDone"
    /\ args = <<NumTok(8), NumTok(30), NumTok(17), NumTok(0)>>
    /\ getHours(currentDate) = 17
    /\ getMinutes(currentDate) = 0
    /\ getSeconds(currentDate) = 59
    /\ result = TRUE

\* C4: a time window whose start is later in the day than its end spans
\* midnight: in the 2-, 4- and 6-argument forms the result is true at or
\* after the start and before (2 arguments) or up to (4, 6 arguments) the end.
C4_WrapsMidnight ==
    LET marked == args # <<>> /\ args[Len(args)] = GMT
        n == IF marked THEN Len(args) - 1 ELSE Len(args)
    IN  (pc = "timeRangeDone" /\ n \in {2, 4, 6}
            /\ \A i \in 1..n : args[i].t = "num") =>
        LET H == IF marked THEN getUTCHours(currentDate)
                 ELSE getHours(currentDate)
            M == IF marked THEN getUTCMinutes(currentDate)
                 ELSE getMinutes(currentDate)
            S == IF marked THEN getUTCSeconds(currentDate)
                 ELSE getSeconds(currentDate)
            now == H * 3600 + M * 60 + S
            start == IF n = 2 THEN args[1].n * 3600
                     ELSE IF n = 4 THEN args[1].n * 3600 + args[2].n * 60
                     ELSE args[1].n * 3600 + args[2].n * 60 + args[3].n
            end == IF n = 2 THEN args[2].n * 3600 - 1
                   ELSE IF n = 4
                   THEN args[3].n * 3600 + args[4].n * 60 + 59
                   ELSE args[4].n * 3600 + args[5].n * 60 + args[6].n
            wraps == IF n = 2 THEN args[1].n > args[2].n ELSE start > end
        IN  wraps => (result <=> (start <= now \/ now <= end))

\* C5: timeRange(hour1, hour2) is true iff hour1 <= currentHour < hour2,
\* so it is false at currentHour = hour2, and timeRange(h, h + 1) is
\* timeRange(h).
C5_TwoArgHalfOpen ==
    LET marked == Len(args) = 3 /\ args[3] = GMT
    IN  (pc = "timeRangeDone" /\ (Len(args) = 2 \/ marked)
            /\ \A i \in 1..2 : args[i].t = "num") =>
        LET H == IF marked THEN getUTCHours(currentDate)
                 ELSE getHours(currentDate)
            h1 == args[1].n
            h2 == args[2].n
            single == IF marked THEN <<args[1], GMT>> ELSE <<args[1]>>
        IN  /\ result <=> (h1 <= H /\ H < h2)
            /\ H = h2 => result = FALSE
            /\ (H = h1 /\ h1 < h2) => result = TRUE
            /\ h2 = h1 + 1 => (result <=> timeRange(single, currentDate))

\* (8, 17) at hour 17: the upper bound is excluded
C5_Witness ==
    /\ pc = "timeRangeDone"
    /\ args = <<NumTok(8), NumTok(17)>>
    /\ getHours(currentDate) = 17
    /\ result = FALSE

\* C6: with a final argument 'GMT' the result depends on the UTC fields and
\* the other arguments only (the same instant in another timezone gives the
\* same result); without it the result depends on the local fields only
\* (another instant with the same local fields gives the same result).
C6_OneClockVariant ==
    pc = "timeRangeDone" =>
    \A o \in TZOffsets :
        IF args # <<>> /\ args[Len(args)] = GMT
        THEN result = timeRange(args, [utc |-> currentDate.utc, off |-> o])
        ELSE result = timeRange(args,
                 [utc |-> (currentDate.utc + (currentDate.off - o) * 60)
                              % WeekSecs,
                  off |-> o])

\* (8, 0, 8, 30, 'GMT') at 08:29:59 UTC where local time is 13:59:59
C6_Witness ==
    /\ pc = "timeRangeDone"
    /\ args = <<NumTok(8), NumTok(0), NumTok(8), NumTok(30), GMT>>
    /\ getUTCHours(currentDate) = 8
    /\ getHours(currentDate) = 13
    /\ getMinutes(currentDate) # getUTCMinutes(currentDate)
    /\ result = TRUE

\* C7: timeRange is false when the number of arguments, after removing a
\* trailing 'GMT', is not 1, 2, 4 or 6.
C7_OtherArityIsFalse ==
    LET marked == args # <<>> /\ args[Len(args)] = GMT
        n == IF marked THEN Len(args) - 1 ELSE Len(args)
    IN  (pc = "timeRangeDone" /\ n \notin {1, 2, 4, 6}) => result = FALSE

\* three arguments at an hour that the first two would include
C7_Witness ==
    /\ pc = "timeRangeDone"
    /\ args = <<NumTok(8), NumTok(9), NumTok(10)>>
    /\ getHours(currentDate) = 8
    /\ result = FALSE

\* C8: in the 1-, 2-, 4- and 6-argument shapes, with or without the marker,
\* a non-numeric argument makes the result false; a lower-case 'gmt' in last
\* position is such an argument.
C8_NonNumericIsFalse ==
    LET marked == args # <<>> /\ args[Len(args)] = GMT
        n == IF marked THEN Len(args) - 1 ELSE Len(args)
    IN  (pc = "timeRangeDone" /\ n \in {1, 2, 4, 6}
            /\ \E i \in 1..n : args[i] \in BadTokens) => result = FALSE

\* ('gmt', 30, 17, 0) at 08:29:59: the start is not a number
C8_Witness ==
    /\ pc = "timeRangeDone"
    /\ args = <<gmtLower, NumTok(30), NumTok(17), NumTok(0)>>
    /\ getHours(currentDate) = 8
    /\ result = FALSE

\* C9: with no valid second weekday (absent, unrecognized, or the marker),
\* weekdayRange is today = index(wd1), today being the UTC weekday if the
\* marker is the 2nd or 3rd argument and the local weekday otherwise.
C9_SingleWeekdayForm ==
    (pc = "weekdayRangeDone" /\ args[2] \notin WeekdayToks) =>
    LET i1 == IF args[1] \in WeekdayToks
              THEN CHOOSE i \in 0..6 : weekdays[i + 1] = args[1].s
              ELSE 0 - 1
        today == IF args[2] = GMT \/ args[3] = GMT
                 THEN getUTCDay(currentDate) ELSE getDay(currentDate)
    IN  result <=> (today = i1)

\* ('SAT', 'GMT') on a UTC Saturday that is already Sunday local time
C9_Witness ==
    /\ pc = "weekdayRangeDone"
    /\ args = <<StrTok(weekdays[7]), GMT, Undefined>>
    /\ getUTCDay(currentDate) = 6
    /\ getDay(currentDate) = 0
    /\ result = TRUE

\* C10: the result of a call is the result for one single instant among
\* those the clock showed during the call, also when the clock advanced.
C10_SingleSnapshot ==
    /\ pc = "timeRangeDone" =>
           \E t \in callInstants :
               result = timeRange(args, [utc |-> t, off |-> tz])
    /\ pc = "weekdayRangeDone" =>
           \E t \in callInstants :
               result = weekdayRange(args[1], args[2], args[3],
                                     [utc |-> t, off |-> tz])

\* the clock advanced during a call whose result differs between the instants
C10_Witness ==
    /\ pc = "timeRangeDone"
    /\ Cardinality(callInstants) > 1
    /\ \E t1, t2 \in callInstants :
           timeRange(args, [utc |-> t1, off |-> tz])
               # timeRange(args, [utc |-> t2, off |-> tz])

====
